---- MODULE Spec2Model ----
(***************************************************************************)
(* Model of the Bank of Anthos AI assistant service                        *)
(* (src/src/ai-assistant/ai_assistant.py).                                 *)
(*                                                                         *)
(* Text that the program slices, searches, lower-cases, splits or          *)
(* concatenates (descriptions, timestamps, amounts, tokens, account        *)
(* numbers) is a sequence of one-character strings.  Money is fixed point: *)
(* an integer number of hundredths of a dollar, so cents / 100.0 dollars   *)
(* is the integer cents read as hundredths.                                *)
(***************************************************************************)
EXTENDS Integers, Sequences, FiniteSets, TLC

VARIABLES
    \* ---- the HTTP service (one request in flight at a time) ----
    pc,                   \* position of the request handler
    req,                  \* the request being (or last) handled
    auth_token,           \* local auth_token of get_user_data
    account_id,           \* local account_id of get_user_data
    user_data,            \* the user_data dict under construction / returned
    calls,                \* outbound calls of this request, in order
    resp,                 \* the HTTP response of this request
    model,                \* BankingAIAssistant.model (TRUE: configured)
    conversation_context, \* BankingAIAssistant.conversation_context
    \* ---- generate_detailed_analytics run on its own ----
    a_pc, a_user_data, a_i, a_acc, a_result,
    \* ---- categorize_transaction run on its own ----
    c_pc, c_description, c_category

svc_vars == <<pc, req, auth_token, account_id, user_data, calls, resp, model,
              conversation_context>>
a_vars == <<a_pc, a_user_data, a_i, a_acc, a_result>>
c_vars == <<c_pc, c_description, c_category>>
vars == <<svc_vars, a_vars, c_vars>>

(***************************************************************************)
(* Python built-ins on str, dict and list                                  *)
(***************************************************************************)
\* dict.get(k, default)
Get(d, k, default) == IF k \in DOMAIN d THEN d[k] ELSE default

\* dict.update(e) / d[k] = v: the keys of e override those of d
Update(d, e) == e @@ d

\* the empty dict {}
EmptyDict == [k \in {} |-> k]

\* s[:n]
Take(s, n) == IF Len(s) <= n THEN s ELSE SubSeq(s, 1, n)

\* s.startswith(w)
StartsWith(s, w) == Len(s) >= Len(w) /\ SubSeq(s, 1, Len(w)) = w

\* w in s (substring test)
Contains(s, w) ==
    \E i \in 1..(Len(s) - Len(w) + 1) : SubSeq(s, i, i + Len(w) - 1) = w

UpperCase == <<"A","B","C","D","E","F","G","H","I","J","K","L","M",
               "N","O","P","Q","R","S","T","U","V","W","X","Y","Z">>
LowerCase == <<"a","b","c","d","e","f","g","h","i","j","k","l","m",
               "n","o","p","q","r","s","t","u","v","w","x","y","z">>
UpperSet == {UpperCase[i] : i \in 1..Len(UpperCase)}
LowerSet == {LowerCase[i] : i \in 1..Len(LowerCase)}
IsUpper(c) == c \in UpperSet
IsLower(c) == c \in LowerSet
\* the lower-case letter of each upper-case one
LowerOf == [c \in UpperSet |->
               LowerCase[CHOOSE i \in 1..Len(UpperCase) : UpperCase[i] = c]]
LowerChar(c) == IF c \in UpperSet THEN LowerOf[c] ELSE c

\* s.lower()
Lower(s) == [i \in 1..Len(s) |-> LowerChar(s[i])]

\* any(word in s for word in words)
AnyWordIn(words, s) == \E i \in 1..Len(words) : Contains(s, words[i])

(***************************************************************************)
(* categorize_transaction                                                  *)
(***************************************************************************)
IncomeWords ==
  << <<"s","a","l","a","r","y">>,
     <<"d","e","p","o","s","i","t">>,
     <<"i","n","c","o","m","e">>,
     <<"r","e","c","e","i","v","e","d"," ","f","r","o","m">> >>
FoodWords ==
  << <<"g","r","o","c","e","r","y">>,
     <<"f","o","o","d">>,
     <<"r","e","s","t","a","u","r","a","n","t">>,
     <<"c","o","f","f","e","e">> >>
TransportationWords ==
  << <<"g","a","s">>,
     <<"f","u","e","l">>,
     <<"t","r","a","n","s","p","o","r","t">>,
     <<"u","b","e","r">>,
     <<"t","a","x","i">> >>
ShoppingWords ==
  << <<"s","h","o","p","p","i","n","g">>,
     <<"r","e","t","a","i","l">>,
     <<"a","m","a","z","o","n">>,
     <<"s","t","o","r","e">> >>
HousingWords ==
  << <<"r","e","n","t">>,
     <<"m","o","r","t","g","a","g","e">>,
     <<"u","t","i","l","i","t","i","e","s">>,
     <<"e","l","e","c","t","r","i","c">>,
     <<"w","a","t","e","r">> >>
TransferWords ==
  << <<"t","r","a","n","s","f","e","r">>,
     <<"s","e","n","t"," ","t","o">>,
     <<"p","a","y","m","e","n","t">> >>

\* A slip in the branch order: the transfers test moved ahead of the others.
categorize_transaction_transfers_first(description) ==
    LET description_lower == Lower(description) IN
    IF AnyWordIn(TransferWords, description_lower) THEN "Transfers"
    ELSE IF AnyWordIn(IncomeWords, description_lower) THEN "Income"
    ELSE IF AnyWordIn(FoodWords, description_lower) THEN "Food & Dining"
    ELSE IF AnyWordIn(TransportationWords, description_lower) THEN "Transportation"
    ELSE IF AnyWordIn(ShoppingWords, description_lower) THEN "Shopping"
    ELSE IF AnyWordIn(HousingWords, description_lower) THEN "Housing"
    ELSE "Other"

categorize_transaction(description) ==
    LET description_lower == Lower(description) IN
    IF AnyWordIn(IncomeWords, description_lower) THEN "Income"
    ELSE IF AnyWordIn(FoodWords, description_lower) THEN "Food & Dining"
    ELSE IF AnyWordIn(TransportationWords, description_lower) THEN "Transportation"
    ELSE IF AnyWordIn(ShoppingWords, description_lower) THEN "Shopping"
    ELSE IF AnyWordIn(HousingWords, description_lower) THEN "Housing"
    ELSE IF AnyWordIn(TransferWords, description_lower) THEN "Transfers"
    ELSE "Other"

(***************************************************************************)
(* Numbers.  Python floats holding dollar amounts are exact hundredths     *)
(* here; the quotients of the health score are exact fractions [n, d].     *)
(***************************************************************************)
Abs(x) == IF x < 0 THEN -x ELSE x

RECURSIVE GCD(_, _)
GCD(a, b) == IF b = 0 THEN a ELSE GCD(b, a % b)

\* the fraction n/d in lowest terms, d > 0
Rat(n, d) ==
    LET g == GCD(Abs(n), Abs(d))
        s == IF d < 0 THEN -1 ELSE 1
    IN  [n |-> s * (n \div g), d |-> s * (d \div g)]
RatAdd(x, y) ==
    LET g == GCD(x.d, y.d)
    IN  Rat(x.n * (y.d \div g) + y.n * (x.d \div g), (x.d \div g) * y.d)
\* x * k for an integer k
RatScale(x, k) ==
    LET g == GCD(x.d, Abs(k)) IN Rat(x.n * (k \div g), x.d \div g)
RatLeq(x, y) == x.n * y.d <= y.n * x.d
RatMin(x, y) == IF RatLeq(x, y) THEN x ELSE y
\* int(x): truncation toward zero
RatInt(x) == IF x.n >= 0 THEN x.n \div x.d ELSE -((-x.n) \div x.d)
Digits == <<"0","1","2","3","4","5","6","7","8","9">>
IsDigit(c) == \E i \in 1..Len(Digits) : Digits[i] = c
DigitVal(c) == (CHOOSE i \in 1..Len(Digits) : Digits[i] = c) - 1
AllDigits(s) == \A i \in 1..Len(s) : IsDigit(s[i])

RECURSIVE DigitsVal(_)
DigitsVal(s) ==
    IF s = <<>> THEN 0
    ELSE 10 * DigitsVal(SubSeq(s, 1, Len(s) - 1)) + DigitVal(s[Len(s)])

\* float(s) for the decimal literals [+-]digits[.digits] the service handles;
\* ok = FALSE is ValueError.  The value is in hundredths, so the literals of
\* the model carry at most two fraction digits.
ParseFloat(s) ==
    LET signed == s /= <<>> /\ s[1] \in {"+", "-"}
        body == IF signed THEN Tail(s) ELSE s
        dots == {i \in 1..Len(body) : body[i] = "."}
        p == IF dots = {} THEN Len(body) + 1 ELSE CHOOSE i \in dots : TRUE
        ip == SubSeq(body, 1, p - 1)
        fp == SubSeq(body, p + 1, Len(body))
        wellFormed == /\ Cardinality(dots) <= 1
                      /\ AllDigits(ip) /\ AllDigits(fp)
                      /\ Len(ip) + Len(fp) >= 1
                      /\ Len(fp) <= 2
        frac == IF Len(fp) = 0 THEN 0
                ELSE IF Len(fp) = 1 THEN 10 * DigitsVal(fp)
                ELSE DigitsVal(fp)
        mag == 100 * DigitsVal(ip) + frac
    IN  IF ~wellFormed THEN [ok |-> FALSE, value |-> 0]
        ELSE [ok |-> TRUE,
              value |-> IF signed /\ s[1] = "-" THEN -mag ELSE mag]

(***************************************************************************)
(* extract_contact_from_description                                        *)
(***************************************************************************)
\* None where a str is expected
NoneStr == <<"<None>">>

IsSpace(c) == c \in {" ", "\t", "\n"}

RECURSIVE SpaceRunEnd(_, _)
\* the last index of the longest run of whitespace that starts at j (j - 1
\* when s[j] is none): a greedy \s* from j
SpaceRunEnd(s, j) ==
    IF j <= Len(s) /\ IsSpace(s[j]) THEN SpaceRunEnd(s, j + 1) ELSE j - 1

RECURSIVE LowerRunEnd(_, _)
\* the same for lower-case letters: a greedy [a-z]* from j
LowerRunEnd(s, j) ==
    IF j <= Len(s) /\ IsLower(s[j]) THEN LowerRunEnd(s, j + 1) ELSE j - 1

\* ([A-Z][a-z]+) matched at j
NameAt(s, j) == j >= 1 /\ j + 1 <= Len(s) /\ IsUpper(s[j]) /\ IsLower(s[j + 1])
NameFrom(s, j) == SubSeq(s, j, LowerRunEnd(s, j + 1))

\* re.search(word\s+([A-Z][a-z]+), s).group(1), or NoneStr
SearchWordName(word, s) ==
    LET n == Len(word)
        hits == {i \in 1..(Len(s) - n + 1) :
                    /\ SubSeq(s, i, i + n - 1) = word
                    /\ SpaceRunEnd(s, i + n) >= i + n
                    /\ NameAt(s, SpaceRunEnd(s, i + n) + 1)}
        first == CHOOSE i \in hits : \A k \in hits : i <= k
    IN  IF hits = {} THEN NoneStr
        ELSE NameFrom(s, SpaceRunEnd(s, first + n) + 1)

\* re.search(([A-Z][a-z]+)\s+\(, s).group(1), or NoneStr
SearchNameParen(s) ==
    LET NameEnd(i) == LowerRunEnd(s, i + 1)
        SpaceEnd(i) == SpaceRunEnd(s, NameEnd(i) + 1)
        hits == {i \in 1..Len(s) :
                    /\ NameAt(s, i)
                    /\ NameEnd(i) + 1 <= Len(s)
                    /\ IsSpace(s[NameEnd(i) + 1])
                    /\ SpaceEnd(i) + 1 <= Len(s)
                    /\ s[SpaceEnd(i) + 1] = "("}
        first == CHOOSE i \in hits : \A k \in hits : i <= k
    IN  IF hits = {} THEN NoneStr ELSE NameFrom(s, first)

extract_contact_from_description(description) ==
    LET m1 == SearchWordName(<<"f","r","o","m">>, description)
        m2 == SearchWordName(<<"t","o">>, description)
        m3 == SearchNameParen(description)
    IN  IF m1 /= NoneStr THEN m1
        ELSE IF m2 /= NoneStr THEN m2
        ELSE m3

(***************************************************************************)
(* generate_detailed_analytics                                             *)
(***************************************************************************)
\* d[k] = d.get(k, 0) + v
AddTo(d, k, v) == Update(d, k :> (Get(d, k, 0) + v))

\* timestamp[:7]: a slip that buckets by day (the first 10 characters)
MonthOfByDay(timestamp) == Take(timestamp, 10)

\* month = timestamp[:7]  # YYYY-MM
MonthOf(timestamp) == Take(timestamp, 7)

\* The amount and direction of one transaction (the head of the try block):
\* ok = FALSE is the ValueError of float(amount_str).
TxAmount(transaction) ==
    LET amount_str == Get(transaction, "amount", <<"0">>) IN
    IF "raw_amount" \in DOMAIN transaction
    THEN [ok |-> TRUE,
          amount |-> transaction["raw_amount"],
          is_income |-> StartsWith(amount_str, <<"+">>)]
    ELSE LET f == ParseFloat(amount_str) IN
         [ok |-> f.ok, amount |-> f.value, is_income |-> f.value > 0]

\* analytics and the loop's running totals before the first transaction
AnalyticsStart(balance, transactions) ==
    [analytics |->
        [current_balance |-> balance,
         total_transactions |-> Len(transactions),
         spending_by_month |-> EmptyDict,
         income_by_month |-> EmptyDict,
         transaction_categories |-> EmptyDict,
         financial_health_score |-> 0,
         trends |-> EmptyDict,
         contact_analysis |-> EmptyDict],
     total_income |-> 0,
     total_spending |-> 0,
     contact_frequency |-> EmptyDict]

\* One iteration of "for transaction in transactions".  Every statement that
\* can raise precedes the first update, so the except clause leaves acc as it
\* was.
AnalyzeTransaction(acc, transaction) ==
    LET timestamp == Get(transaction, "timestamp", <<>>)
        description == Get(transaction, "description", <<>>)
        a == TxAmount(transaction)
        amount == Abs(a.amount)
        month == MonthOf(timestamp)
        an0 == acc.analytics
        \* Monthly analysis
        an1 == IF timestamp = <<>> THEN an0
               ELSE IF a.is_income
               THEN [an0 EXCEPT !.income_by_month = AddTo(@, month, amount)]
               ELSE [an0 EXCEPT !.spending_by_month = AddTo(@, month, amount)]
        income == IF timestamp /= <<>> /\ a.is_income
                  THEN acc.total_income + amount ELSE acc.total_income
        spending == IF timestamp /= <<>> /\ ~a.is_income
                    THEN acc.total_spending + amount ELSE acc.total_spending
        \* Category analysis
        category == categorize_transaction(description)
        an2 == [an1 EXCEPT !.transaction_categories = AddTo(@, category, amount)]
        \* Contact analysis
        contact_name == extract_contact_from_description(description)
        cf0 == acc.contact_frequency
        cf1 == IF contact_name \in DOMAIN cf0 THEN cf0
               ELSE Update(cf0, contact_name :>
                        [count |-> 0, total_amount |-> 0,
                         type |-> IF a.is_income THEN "income" ELSE "expense"])
        cf2 == [cf1 EXCEPT ![contact_name] =
                    [@ EXCEPT !.count = @ + 1, !.total_amount = @ + amount]]
    IN  IF ~a.ok THEN acc
        ELSE [analytics |-> an2,
              total_income |-> income,
              total_spending |-> spending,
              contact_frequency |->
                  IF contact_name /= NoneStr THEN cf2 ELSE cf0]

RECURSIVE AnalyzeAll(_, _)
AnalyzeAll(acc, transactions) ==
    IF transactions = <<>> THEN acc
    ELSE AnalyzeAll(AnalyzeTransaction(acc, Head(transactions)),
                    Tail(transactions))

\* financial_health_score as the code computes it
HealthScore(total_income, total_spending, balance, categories) ==
    LET savings_rate == IF total_income > 0
                        THEN Rat(total_income - total_spending, total_income)
                        ELSE Rat(0, 1)
        \* balance / 5000, the balance being in hundredths
        balance_ratio == RatMin(Rat(balance, 5000 * 100), Rat(1, 1))
        transaction_diversity == RatMin(Rat(categories, 5), Rat(1, 1))
    IN  RatInt(RatScale(RatAdd(RatAdd(RatScale(savings_rate, 40),
                                      RatScale(balance_ratio, 40)),
                               RatScale(transaction_diversity, 20)),
                        100))

\* A slip that takes the net change as spending minus income.
FinishAnalyticsNetReversed(acc, balance) ==
    [contact_analysis |-> acc.contact_frequency,
     total_income |-> acc.total_income,
     total_spending |-> acc.total_spending,
     net_change |-> acc.total_spending - acc.total_income,
     financial_health_score |->
        HealthScore(acc.total_income, acc.total_spending, balance,
                    Cardinality(DOMAIN acc.analytics.transaction_categories))]
    @@ acc.analytics

\* The statements after the loop.
FinishAnalytics(acc, balance) ==
    [contact_analysis |-> acc.contact_frequency,
     total_income |-> acc.total_income,
     total_spending |-> acc.total_spending,
     net_change |-> acc.total_income - acc.total_spending,
     financial_health_score |->
        HealthScore(acc.total_income, acc.total_spending, balance,
                    Cardinality(DOMAIN acc.analytics.transaction_categories))]
    @@ acc.analytics

NoTransactionData == [message |-> "No transaction data available for analysis"]

generate_detailed_analytics(ud) ==
    LET transactions == Get(ud, "transactions", <<>>)
        balance == Get(Get(ud, "balance", EmptyDict), "balance", 0)
    IN  IF transactions = <<>> THEN NoTransactionData
        ELSE FinishAnalytics(
                 AnalyzeAll(AnalyticsStart(balance, transactions), transactions),
                 balance)

(***************************************************************************)
(* Literals of get_user_data and its static placeholder data               *)
(***************************************************************************)
demo_token == <<"d","e","m","o","-","t","o","k","e","n">>
BearerPrefix == <<"B","e","a","r","e","r"," ">>
Unknown == <<"U","n","k","n","o","w","n">>
UnknownContact == <<"U","n","k","n","o","w","n"," ","C","o","n","t","a","c","t">>
PaymentFrom == <<"P","a","y","m","e","n","t"," ","f","r","o","m">>
PaymentTo == <<"P","a","y","m","e","n","t"," ","t","o">>
TransferFrom == <<"T","r","a","n","s","f","e","r"," ","f","r","o","m">>
TransferTo == <<"T","r","a","n","s","f","e","r"," ","t","o">>
AccountWord == <<" ","a","c","c","o","u","n","t"," ">>
CoffeeShop == <<"C","o","f","f","e","e"," ","S","h","o","p">>
GroceryStore == <<"G","r","o","c","e","r","y"," ","S","t","o","r","e">>
SalaryDeposit == <<"S","a","l","a","r","y"," ","D","e","p","o","s","i","t">>
GasStation == <<"G","a","s"," ","S","t","a","t","i","o","n">>
AliceJohnson == <<"A","l","i","c","e"," ","J","o","h","n","s","o","n">>
BobSmith == <<"B","o","b"," ","S","m","i","t","h">>
Acct1234567890 == <<"1","2","3","4","5","6","7","8","9","0">>
Acct0987654321 == <<"0","9","8","7","6","5","4","3","2","1">>
Amt_m45_30 == <<"-","4","5",".","3","0">>
Amt_m120_00 == <<"-","1","2","0",".","0","0">>
Amt_2500_00 == <<"2","5","0","0",".","0","0">>
Amt_m85_50 == <<"-","8","5",".","5","0">>
Ts_2024_01_15 == <<"2","0","2","4","-","0","1","-","1","5","T","1","0",":","3","0",":","0","0","Z">>
Ts_2024_01_14 == <<"2","0","2","4","-","0","1","-","1","4","T","1","6",":","4","5",":","0","0","Z">>
Ts_2024_01_13 == <<"2","0","2","4","-","0","1","-","1","3","T","0","9",":","0","0",":","0","0","Z">>
Ts_2024_01_12 == <<"2","0","2","4","-","0","1","-","1","2","T","1","8",":","2","0",":","0","0","Z">>

\* {"balance": 1250.75, "currency": "USD"}
FallbackBalance == [balance |-> 125075, currency |-> "USD"]
FallbackTransactions ==
    << [amount |-> Amt_m45_30, description |-> CoffeeShop, timestamp |-> Ts_2024_01_15],
       [amount |-> Amt_m120_00, description |-> GroceryStore, timestamp |-> Ts_2024_01_14],
       [amount |-> Amt_2500_00, description |-> SalaryDeposit, timestamp |-> Ts_2024_01_13],
       [amount |-> Amt_m85_50, description |-> GasStation, timestamp |-> Ts_2024_01_12] >>
FallbackContacts ==
    << [label |-> AliceJohnson, account_num |-> Acct1234567890],
       [label |-> BobSmith, account_num |-> Acct0987654321] >>

\* A slip that leaves the contacts out of the fallback record.
FallbackDataNoContacts ==
    [balance |-> FallbackBalance, transactions |-> FallbackTransactions]

\* The dict both fallback branches pass to user_data.update.
FallbackData ==
    [balance |-> FallbackBalance,
     transactions |-> FallbackTransactions,
     contacts |-> FallbackContacts]

(***************************************************************************)
(* Formatting and token handling of get_user_data                          *)
(***************************************************************************)
RECURSIVE DigitsOf(_)
\* str(n) for n >= 0
DigitsOf(n) ==
    IF n < 10 THEN <<Digits[n + 1]>>
    ELSE DigitsOf(n \div 10) \o <<Digits[(n % 10) + 1]>>

\* f"{cents / 100.0:.2f}"
Format2f(cents) ==
    LET mag == Abs(cents) IN
    (IF cents < 0 THEN <<"-">> ELSE <<>>)
    \o DigitsOf(mag \div 100) \o <<".">>
    \o <<Digits[((mag % 100) \div 10) + 1], Digits[(mag % 10) + 1]>>

RECURSIVE Split(_, _)
\* s.split(c) for a one-character separator c
Split(s, c) ==
    LET at == {i \in 1..Len(s) : s[i] = c} IN
    IF at = {} THEN <<s>>
    ELSE LET i == CHOOSE k \in at : \A j \in at : k <= j
         IN  <<SubSeq(s, 1, i - 1)>> \o Split(SubSeq(s, i + 1, Len(s)), c)

RECURSIVE Replace(_, _)
\* s.replace(w, '')
Replace(s, w) ==
    IF Len(s) < Len(w) \/ w = <<>> THEN s
    ELSE IF StartsWith(s, w) THEN Replace(SubSeq(s, Len(w) + 1, Len(s)), w)
    ELSE <<s[1]>> \o Replace(Tail(s), w)

\* if s: (s is None or a str)
Truthy(s) == s /= NoneStr /\ s /= <<>>

testuser == <<"t","e","s","t","u","s","e","r">>
alice == <<"a","l","i","c","e">>
Acct1011226111 == <<"1","0","1","1","2","2","6","1","1","1">>
Acct1033623433 == <<"1","0","3","3","6","2","3","4","3","3">>
Acct1055757655 == <<"1","0","5","5","7","5","7","6","5","5">>
Token_testuser == <<"h",".","T",".","s">>
Token_noacct == <<"h",".","N",".","s">>
Token_badpayload == <<"h",".","x",".","s">>
Token_opaque == <<"a","b","c">>

\* json.loads(base64.b64decode(part + '==')) of the payload parts the model's
\* tokens carry; ok = FALSE is the exception either call raises.
DecodePayload(part) ==
    IF part = <<"T">>
    THEN [ok |-> TRUE, token_data |-> [user |-> testuser, acct |-> Acct1011226111]]
    ELSE IF part = <<"N">>
    THEN [ok |-> TRUE, token_data |-> [user |-> testuser]]
    ELSE [ok |-> FALSE, token_data |-> EmptyDict]

\* "Extract account ID from JWT token": any exception leaves the username.
ExtractAccountId(token, username) ==
    LET token_parts == Split(token, ".")
        p == DecodePayload(token_parts[2])
    IN  IF Len(token_parts) < 2 THEN username
        ELSE IF ~p.ok THEN username
        ELSE Get(p.token_data, "acct", username)

\* The body of "for tx in raw_transactions[:20]" for one tx.
FormatTransaction(tx, acct, ud) ==
    LET amount_cents == Get(tx, "amount", 0)
        is_incoming == Get(tx, "toAccountNum", NoneStr) = acct
        from_account == Get(tx, "fromAccountNum", Unknown)
        to_account == Get(tx, "toAccountNum", Unknown)
        other_account == IF is_incoming THEN from_account ELSE to_account
        contacts == Get(ud, "contacts", <<>>)
        hits == {i \in 1..Len(contacts) :
                    Get(contacts[i], "account_num", NoneStr) = other_account}
        contact_name ==
            IF hits = {} THEN NoneStr
            ELSE Get(contacts[CHOOSE i \in hits : \A j \in hits : i <= j],
                     "label", UnknownContact)
        description ==
            IF Truthy(contact_name)
            THEN (IF is_incoming THEN PaymentFrom ELSE PaymentTo)
                 \o <<" ">> \o contact_name
            ELSE (IF is_incoming THEN TransferFrom ELSE TransferTo)
                 \o AccountWord \o other_account
    IN  [amount |-> (IF is_incoming THEN <<"+">> ELSE <<"-">>)
                    \o Format2f(amount_cents),
         description |-> description,
         timestamp |-> Get(tx, "timestamp", <<>>),
         raw_amount |-> amount_cents,
         is_incoming |-> is_incoming,
         from_account |-> from_account,
         to_account |-> to_account,
         transaction_id |-> Get(tx, "transactionId", <<>>)]

\* formatted_transactions for raw_transactions[:20]
FormatTransactions(raw_transactions, acct, ud) ==
    LET kept == Take(raw_transactions, 20)
    IN  [i \in 1..Len(kept) |-> FormatTransaction(kept[i], acct, ud)]

(***************************************************************************)
(* The environment: what the upstream services and the generative model    *)
(* may answer, and the requests clients may send                           *)
(***************************************************************************)
\* Longest upstream transaction list drawn from RawPool.
MaxRawTxs == 2

Ts_2024_01_20 == <<"2","0","2","4","-","0","1","-","2","0","T","0","8",":","0","0",":","0","0","Z">>
Ts_2024_02_01 == <<"2","0","2","4","-","0","2","-","0","1","T","1","2",":","0","0",":","0","0","Z">>

\* requests.get raised a requests.RequestException
NetworkError == [raises |-> TRUE]
\* a response with a non-success status
Failed(code) == [raises |-> FALSE, status_code |-> code]
\* a 200 response whose .json() is body
Ok(body) == [raises |-> FALSE, status_code |-> 200, json |-> body]

Outcome(r) == IF r.raises THEN "neterr"
              ELSE IF r.status_code = 200 THEN "ok" ELSE "status"

LoginResponses ==
    {NetworkError, Failed(401), Ok([token |-> Token_testuser]), Ok(EmptyDict)}

BalanceResponses == {NetworkError, Failed(500), Ok(0), Ok(730050)}

\* transactions as the transaction-history service lists them
RawPool ==
    { [transactionId |-> <<"t","x","-","1">>, fromAccountNum |-> Acct1033623433,
       toAccountNum |-> Acct1011226111, amount |-> 1250,
       timestamp |-> Ts_2024_01_20],
      [transactionId |-> <<"t","x","-","2">>, fromAccountNum |-> Acct1011226111,
       toAccountNum |-> Acct1055757655, amount |-> 3000,
       timestamp |-> Ts_2024_02_01] }

RawLists == UNION {[1..n -> RawPool] : n \in 0..MaxRawTxs}

\* 21 transactions: one more than get_user_data keeps
LongRawList ==
    [i \in 1..21 |->
        [transactionId |-> DigitsOf(i), fromAccountNum |-> Acct1033623433,
         toAccountNum |-> Acct1011226111, amount |-> 100 * i,
         timestamp |-> Ts_2024_01_20]]

TransactionsResponses ==
    {NetworkError, Failed(500), Ok(LongRawList)} \cup {Ok(l) : l \in RawLists}

UpstreamContacts ==
    << [label |-> <<"B","o","b">>, account_num |-> Acct1033623433],
       [label |-> <<"C","a","r","o","l">>, account_num |-> Acct1055757655] >>

ContactsResponses == {NetworkError, Failed(500), Ok(<<>>), Ok(UpstreamContacts)}

\* model.generate_content(prompt): a response with .text, or an exception
ModelResponses ==
    {[raises |-> FALSE, text |-> "generated text"],
     [raises |-> TRUE, text |-> ""]}

Usernames == {testuser, alice}
Messages == {"What is my balance?"}

\* request.get_json() of POST /chat: None, or a JSON object holding any of
\* the keys message and username
ChatJsons ==
    {[has_json |-> FALSE, json |-> EmptyDict]} \cup
    {[has_json |-> TRUE, json |-> [k \in ks |-> IF k = "message" THEN m ELSE u]] :
        ks \in SUBSET {"message", "username"}, m \in Messages, u \in Usernames}

\* the Authorization header of GET /spending-analysis, when there is one
AuthorizationValues ==
    { <<>>,
      BearerPrefix,
      BearerPrefix \o BearerPrefix,
      BearerPrefix \o Token_testuser,
      BearerPrefix \o Token_opaque,
      BearerPrefix \o demo_token,
      Token_noacct,
      BearerPrefix \o Token_badpayload }

HeaderSets ==
    {EmptyDict} \cup {[k \in {"Authorization"} |-> v] : v \in AuthorizationValues}

(***************************************************************************)
(* generate_financial_insights, chat_with_user and the JSON responses      *)
(***************************************************************************)
InsightsUnavailable ==
    [insights |-> "AI insights are currently unavailable. Please check configuration.",
     analytics |-> EmptyDict,
     visualizations |-> EmptyDict]
InsightsTrouble ==
    [insights |-> "I'm having trouble analyzing your financial data right now. Please try again later.",
     analytics |-> EmptyDict,
     visualizations |-> EmptyDict]
ChatUnavailable == "AI chat is currently unavailable. Please check configuration."
ChatTrouble == "I'm sorry, I'm having trouble understanding your request right now. Please try again."

\* datetime.now().isoformat()
Now == "<now>"

Visualizations(analytics) ==
    [monthly_spending_chart |->
        [type |-> "line",
         data |-> Get(analytics, "spending_by_month", EmptyDict),
         title |-> "Monthly Spending Trends"],
     monthly_income_chart |->
        [type |-> "line",
         data |-> Get(analytics, "income_by_month", EmptyDict),
         title |-> "Monthly Income Trends"],
     category_pie_chart |->
        [type |-> "pie",
         data |-> Get(analytics, "transaction_categories", EmptyDict),
         title |-> "Spending by Category"],
     income_vs_expense_chart |->
        [type |-> "bar",
         data |-> [Income |-> Get(analytics, "total_income", 0),
                   Expenses |-> Get(analytics, "total_spending", 0),
                   Net |-> Get(analytics, "net_change", 0)],
         title |-> "Income vs Expenses Overview"],
     financial_health_gauge |->
        [type |-> "gauge",
         value |-> Get(analytics, "financial_health_score", 0),
         title |-> "Financial Health Score"]]

RECURSIVE CategoriesInOrder(_, _)
\* The keys of transaction_categories in insertion order (a dict iterates in
\* insertion order): the categories of the parsed transactions, by first use.
CategoriesInOrder(transactions, seen) ==
    IF transactions = <<>> THEN seen
    ELSE LET tx == Head(transactions)
             c == categorize_transaction(Get(tx, "description", <<>>))
             known == \E i \in 1..Len(seen) : seen[i] = c
         IN  CategoriesInOrder(Tail(transactions),
                 IF TxAmount(tx).ok /\ ~known THEN Append(seen, c) ELSE seen)

\* A slip that takes the first category listed instead of the largest.
TopCategoryFirstKey(analytics, ud) ==
    LET cats == Get(analytics, "transaction_categories", EmptyDict)
        order == CategoriesInOrder(Get(ud, "transactions", <<>>), <<>>)
    IN  IF DOMAIN cats = {} THEN "No data" ELSE order[1]

\* max(categories.items(), key=lambda x: x[1])[0]: the first key, in
\* insertion order, that carries the largest value; "No data" without keys
TopCategory(analytics, ud) ==
    LET cats == Get(analytics, "transaction_categories", EmptyDict)
        order == CategoriesInOrder(Get(ud, "transactions", <<>>), <<>>)
        best == CHOOSE i \in 1..Len(order) :
                    /\ \A j \in 1..Len(order) : cats[order[j]] <= cats[order[i]]
                    /\ \A j \in 1..(i - 1) : cats[order[j]] < cats[order[i]]
    IN  IF DOMAIN cats = {} THEN "No data" ELSE order[best]

\* A slip that returns the computed analytics and charts with the apology
\* when the model call raises.
InsightsDataKeepsAnalytics(ud, r) ==
    LET analytics == generate_detailed_analytics(ud) IN
    [insights |-> IF r.raises THEN InsightsTrouble.insights ELSE r.text,
     analytics |-> analytics,
     visualizations |-> Visualizations(analytics),
     summary |->
        [balance |-> Get(analytics, "current_balance", 0),
         health_score |-> Get(analytics, "financial_health_score", 0),
         net_change |-> Get(analytics, "net_change", 0),
         top_category |-> TopCategory(analytics, ud)]]

\* generate_financial_insights once the model has answered (self.model set)
InsightsData(ud, r) ==
    LET analytics == generate_detailed_analytics(ud) IN
    IF r.raises THEN InsightsTrouble
    ELSE [insights |-> r.text,
          analytics |-> analytics,
          visualizations |-> Visualizations(analytics),
          summary |->
            [balance |-> Get(analytics, "current_balance", 0),
             health_score |-> Get(analytics, "financial_health_score", 0),
             net_change |-> Get(analytics, "net_change", 0),
             top_category |-> TopCategory(analytics, ud)]]

\* A slip that spreads insights_data into the body instead of reading each
\* key with a default.
InsightsBodySpread(username, insights_data) ==
    [username |-> username, timestamp |-> Now] @@ insights_data

\* the jsonify(...) of get_financial_insights
InsightsBody(username, insights_data) ==
    [username |-> username,
     insights |-> Get(insights_data, "insights", ""),
     analytics |-> Get(insights_data, "analytics", EmptyDict),
     visualizations |-> Get(insights_data, "visualizations", EmptyDict),
     summary |-> Get(insights_data, "summary", EmptyDict),
     timestamp |-> Now]

\* the jsonify(...) of chat
ChatBody(username, message, response) ==
    [username |-> username,
     user_message |-> message,
     ai_response |-> response,
     timestamp |-> Now]

\* A slip that forgets the username test.
ChatBodyInvalidMessageOnly(data) ==
    ~data.has_json \/ DOMAIN data.json = {} \/ "message" \notin DOMAIN data.json

\* not data or 'message' not in data or 'username' not in data
ChatBodyInvalid(data) ==
    \/ ~data.has_json \/ DOMAIN data.json = {}
    \/ "message" \notin DOMAIN data.json
    \/ "username" \notin DOMAIN data.json

\* A slip that reads the header without removing the scheme.
BearerTokenRawHeader(headers) == Get(headers, "Authorization", <<>>)

\* request.headers.get('Authorization', '').replace('Bearer ', '')
BearerToken(headers) == Replace(Get(headers, "Authorization", <<>>), BearerPrefix)

\* A slip that logs in only when no credential is given, and so sends the
\* placeholder 'demo-token' upstream.
NeedsLoginOnlyIfAbsent(token) == ~Truthy(token)

\* not auth_token or auth_token == 'demo-token'
NeedsLogin(token) == ~Truthy(token) \/ token = demo_token

(***************************************************************************)
(* The HTTP service.  A handler runs from the request to its first         *)
(* outbound call, then from each answer to the next call or the response.  *)
(***************************************************************************)

\* What each fetch of get_user_data does to user_data with an answer r that
\* did not raise: the value of a 200 answer, else the field's placeholder.
FetchBalance(ud, r) ==
    Update(ud, "balance" :>
        IF r.status_code = 200
        THEN [balance |-> r.json, currency |-> "USD"]
        ELSE FallbackBalance)

FetchTransactions(ud, r, acct) ==
    Update(ud, "transactions" :>
        IF r.status_code = 200
        THEN FormatTransactions(r.json, acct, ud)
        ELSE FallbackTransactions)

FetchContacts(ud, r) ==
    Update(ud, "contacts" :>
        IF r.status_code = 200 THEN r.json ELSE FallbackContacts)

Fetch(field, ud, r, acct) ==
    IF field = "balance" THEN FetchBalance(ud, r)
    ELSE IF field = "transactions" THEN FetchTransactions(ud, r, acct)
    ELSE FetchContacts(ud, r)

RECURSIVE FetchInOrder(_, _, _, _)
\* The fetches of get_user_data run in the given order, answers[field] being
\* the answer to each: the first answer that raises ends the fetches in the
\* except clause, which overwrites all three fields.
FetchInOrder(order, answers, ud, acct) ==
    IF order = <<>> THEN ud
    ELSE LET r == answers[Head(order)] IN
         IF r.raises THEN Update(ud, FallbackData)
         ELSE FetchInOrder(Tail(order), answers,
                           Fetch(Head(order), ud, r, acct), acct)

\* the order in which get_user_data makes its fetches
FetchOrder == <<"balance", "transactions", "contacts">>

NoRequest == [route |-> "none"]
NoResponse == [status |-> 0, body |-> EmptyDict]

SvcInit ==
    /\ pc = "idle"
    /\ req = NoRequest
    /\ auth_token = NoneStr
    /\ account_id = NoneStr
    /\ user_data = EmptyDict
    /\ calls = <<>>
    /\ resp = NoResponse
    /\ model \in BOOLEAN
    /\ conversation_context = EmptyDict

Call(endpoint, token, target, r) ==
    [endpoint |-> endpoint, token |-> token, target |-> target, response |-> r]

Respond(status, body) ==
    /\ resp' = [status |-> status, body |-> body]
    /\ pc' = "idle"

\* A slip that goes on to the transactions fetch after the balance call
\* raised.
ContinueAfterBalanceError(r, ud) ==
    /\ user_data' = ud
    /\ IF pc = "balance"
       THEN pc' = "transactions" /\ resp' = NoResponse
       ELSE IF r.route = "insights"
       THEN IF ~model
            THEN Respond(200, InsightsBody(r.username, InsightsUnavailable))
            ELSE pc' = "model" /\ resp' = NoResponse
       ELSE IF r.route = "chat"
       THEN IF ~model
            THEN Respond(200, ChatBody(r.username, r.message, ChatUnavailable))
            ELSE pc' = "model" /\ resp' = NoResponse
       ELSE Respond(500, [error |-> "Failed to analyze spending"])

\* get_user_data has returned ud to the route handler r, which runs on to
\* its model call or to its response.
Continue(r, ud) ==
    /\ user_data' = ud
    /\ IF r.route = "insights"
       THEN IF ~model
            THEN Respond(200, InsightsBody(r.username, InsightsUnavailable))
            ELSE pc' = "model" /\ resp' = NoResponse
       ELSE IF r.route = "chat"
       THEN IF ~model
            THEN Respond(200, ChatBody(r.username, r.message, ChatUnavailable))
            ELSE pc' = "model" /\ resp' = NoResponse
       ELSE \* ai_assistant.analyze_spending_patterns is not defined:
            \* AttributeError, caught by the handler's except Exception
            Respond(500, [error |-> "Failed to analyze spending"])

\* A slip that keeps the credential of an earlier request when there is one.
GetUserDataKeepsToken(r, token) ==
    LET kept == IF Truthy(auth_token) THEN auth_token ELSE token IN
    /\ user_data' = [username |-> r.username]
    /\ auth_token' = kept
    /\ resp' = NoResponse
    /\ IF NeedsLogin(kept)
       THEN pc' = "login" /\ account_id' = NoneStr
       ELSE pc' = "balance" /\ account_id' = ExtractAccountId(kept, r.username)

\* get_user_data(username, token) up to its first outbound call
GetUserData(r, token) ==
    /\ user_data' = [username |-> r.username]
    /\ auth_token' = token
    /\ resp' = NoResponse
    /\ IF NeedsLogin(token)
       THEN pc' = "login" /\ account_id' = NoneStr
       ELSE pc' = "balance" /\ account_id' = ExtractAccountId(token, r.username)

HealthCheck ==
    /\ pc = "idle"
    /\ req' = [route |-> "health"]
    /\ Respond(200, [status |-> "healthy", service |-> "ai-assistant"])
    /\ auth_token' = NoneStr /\ account_id' = NoneStr
    /\ user_data' = EmptyDict /\ calls' = <<>>
    /\ UNCHANGED <<model, conversation_context>>
    /\ UNCHANGED <<a_vars, c_vars>>

ReadyCheck ==
    /\ pc = "idle"
    /\ req' = [route |-> "ready"]
    /\ Respond(200, [status |-> "ready", service |-> "ai-assistant",
                     gemini_configured |-> model])
    /\ auth_token' = NoneStr /\ account_id' = NoneStr
    /\ user_data' = EmptyDict /\ calls' = <<>>
    /\ UNCHANGED <<model, conversation_context>>
    /\ UNCHANGED <<a_vars, c_vars>>

\* GET /insights/<username>
InsightsRequest(username) ==
    /\ pc = "idle"
    /\ req' = [route |-> "insights", username |-> username]
    /\ calls' = <<>>
    /\ GetUserData(req', demo_token)
    /\ UNCHANGED <<model, conversation_context>>
    /\ UNCHANGED <<a_vars, c_vars>>

\* POST /chat
ChatRequest(data) ==
    /\ pc = "idle"
    /\ calls' = <<>>
    /\ IF ChatBodyInvalid(data)
       THEN /\ req' = [route |-> "chat", data |-> data]
            /\ Respond(400, [description |-> "Message and username required"])
            /\ auth_token' = NoneStr /\ account_id' = NoneStr
            /\ user_data' = EmptyDict
       ELSE IF {"username", "message"} \subseteq DOMAIN data.json
       THEN /\ req' = [route |-> "chat", data |-> data,
                       username |-> data.json["username"],
                       message |-> data.json["message"]]
            /\ GetUserData(req', demo_token)
       ELSE \* data['username'] or data['message'] raises KeyError inside
            \* the try block
            /\ req' = [route |-> "chat", data |-> data]
            /\ Respond(500, [error |-> "Chat service temporarily unavailable"])
            /\ auth_token' = NoneStr /\ account_id' = NoneStr
            /\ user_data' = EmptyDict
    /\ UNCHANGED <<model, conversation_context>>
    /\ UNCHANGED <<a_vars, c_vars>>

\* GET /spending-analysis/<username>
SpendingRequest(username, headers) ==
    /\ pc = "idle"
    /\ calls' = <<>>
    /\ req' = [route |-> "spending-analysis", username |-> username,
               headers |-> headers]
    /\ IF ~Truthy(BearerToken(headers))
       THEN /\ Respond(401, [description |-> "Authorization token required"])
            /\ auth_token' = NoneStr /\ account_id' = NoneStr
            /\ user_data' = EmptyDict
       ELSE GetUserData(req', BearerToken(headers))
    /\ UNCHANGED <<model, conversation_context>>
    /\ UNCHANGED <<a_vars, c_vars>>

\* The login call answers (or raises).
LoginReply(r) ==
    /\ pc = "login"
    /\ calls' = Append(calls, Call("login", NoneStr, req.username, r))
    /\ IF r.raises
       THEN /\ Continue(req, Update(user_data, FallbackData))
            /\ UNCHANGED <<auth_token, account_id>>
       ELSE LET token == IF r.status_code = 200
                         THEN Get(r.json, "token", NoneStr) ELSE NoneStr
            IN  /\ auth_token' = token
                /\ IF Truthy(token)
                   THEN /\ account_id' = ExtractAccountId(token, req.username)
                        /\ pc' = "balance"
                        /\ UNCHANGED <<user_data, resp>>
                   ELSE /\ Continue(req, Update(user_data, FallbackData))
                        /\ UNCHANGED account_id
    /\ UNCHANGED <<req, model, conversation_context>>
    /\ UNCHANGED <<a_vars, c_vars>>

\* The balance call answers (or raises).
BalanceReply(r) ==
    /\ pc = "balance"
    /\ calls' = Append(calls, Call("balance", auth_token, account_id, r))
    /\ IF r.raises
       THEN Continue(req, Update(user_data, FallbackData))
       ELSE /\ user_data' = FetchBalance(user_data, r)
            /\ pc' = "transactions"
            /\ UNCHANGED resp
    /\ UNCHANGED <<req, auth_token, account_id, model, conversation_context>>
    /\ UNCHANGED <<a_vars, c_vars>>

\* The transaction-history call answers (or raises).
TransactionsReply(r) ==
    /\ pc = "transactions"
    /\ calls' = Append(calls, Call("transactions", auth_token, account_id, r))
    /\ IF r.raises
       THEN Continue(req, Update(user_data, FallbackData))
       ELSE /\ user_data' = FetchTransactions(user_data, r, account_id)
            /\ pc' = "contacts"
            /\ UNCHANGED resp
    /\ UNCHANGED <<req, auth_token, account_id, model, conversation_context>>
    /\ UNCHANGED <<a_vars, c_vars>>

\* The contacts call answers (or raises); get_user_data returns.
ContactsReply(r) ==
    /\ pc = "contacts"
    /\ calls' = Append(calls, Call("contacts", auth_token, req.username, r))
    /\ IF r.raises
       THEN Continue(req, Update(user_data, FallbackData))
       ELSE Continue(req, FetchContacts(user_data, r))
    /\ UNCHANGED <<req, auth_token, account_id, model, conversation_context>>
    /\ UNCHANGED <<a_vars, c_vars>>

\* model.generate_content answers (or raises); the handler responds.
ModelReply(r) ==
    /\ pc = "model"
    /\ calls' = Append(calls, Call("model", NoneStr, req.username, r))
    /\ IF req.route = "insights"
       THEN Respond(200, InsightsBody(req.username, InsightsData(user_data, r)))
       ELSE Respond(200, ChatBody(req.username, req.message,
                                  IF r.raises THEN ChatTrouble ELSE r.text))
    /\ UNCHANGED <<req, auth_token, account_id, user_data, model,
                   conversation_context>>
    /\ UNCHANGED <<a_vars, c_vars>>

SvcNext ==
    \/ HealthCheck
    \/ ReadyCheck
    \/ \E username \in Usernames : InsightsRequest(username)
    \/ \E data \in ChatJsons : ChatRequest(data)
    \/ \E username \in Usernames, headers \in HeaderSets :
            SpendingRequest(username, headers)
    \/ \E r \in LoginResponses : LoginReply(r)
    \/ \E r \in BalanceResponses : BalanceReply(r)
    \/ \E r \in TransactionsResponses : TransactionsReply(r)
    \/ \E r \in ContactsResponses : ContactsReply(r)
    \/ \E r \in ModelResponses : ModelReply(r)

(***************************************************************************)
(* generate_detailed_analytics on its own, one loop iteration per step     *)
(***************************************************************************)
\* Longest transaction list drawn from SampleTransactions.
MaxTxs == 2


\* Transactions as get_user_data hands them on: its placeholders, what it
\* formats from upstream transactions, and placeholder-shaped records that
\* exercise the parse failure, the empty and the short timestamp.
SampleTransactions ==
    {FallbackTransactions[i] : i \in 1..Len(FallbackTransactions)}
    \cup {FormatTransaction(tx, Acct1011226111, EmptyDict) : tx \in RawPool}
    \cup { \* "n/a", "Refund"
           [amount |-> <<"n","/","a">>,
            description |-> <<"R","e","f","u","n","d">>,
            timestamp |-> Ts_2024_01_15],
           \* "-10.00", "Monthly Rent", no timestamp
           [amount |-> <<"-","1","0",".","0","0">>,
            description |-> <<"M","o","n","t","h","l","y"," ","R","e","n","t">>,
            timestamp |-> <<>>],
           \* "5.00", "Payment from Bob", "2024"
           [amount |-> <<"5",".","0","0">>,
            description |-> <<"P","a","y","m","e","n","t"," ","f","r","o","m"," ","B","o","b">>,
            timestamp |-> <<"2","0","2","4">>],
           \* "0", "Misc", "2024-01"
           [amount |-> <<"0">>,
            description |-> <<"M","i","s","c">>,
            timestamp |-> <<"2","0","2","4","-","0","1">>] }

\* the placeholders and three more: seven transactions in six categories
VariedTransactions ==
    FallbackTransactions \o
    << \* "Amazon order", "Monthly Rent", "Sent to Carol (gift)"
       [amount |-> <<"-","1","0",".","0","0">>,
        description |-> <<"A","m","a","z","o","n"," ","o","r","d","e","r">>,
        timestamp |-> Ts_2024_02_01],
       [amount |-> Amt_m120_00,
        description |-> <<"M","o","n","t","h","l","y"," ","R","e","n","t">>,
        timestamp |-> Ts_2024_02_01],
       [amount |-> Amt_m45_30,
        description |-> <<"S","e","n","t"," ","t","o"," ","C","a","r","o","l"," ","(","g","i","f","t",")">>,
        timestamp |-> Ts_2024_02_01] >>

SampleLists ==
    {VariedTransactions} \cup UNION {[1..n -> SampleTransactions] : n \in 0..MaxTxs}

\* balances in hundredths: none, the placeholder, the target, above it
SampleBalances == {0, 125075, 500000, 730050}

AInit ==
    /\ a_pc = "start"
    /\ a_user_data \in
        {[username |-> testuser,
          balance |-> [balance |-> b, currency |-> "USD"],
          transactions |-> l] : b \in SampleBalances, l \in SampleLists}
    /\ a_i = 0
    /\ a_acc = AnalyticsStart(0, <<>>)
    /\ a_result = EmptyDict

a_transactions == Get(a_user_data, "transactions", <<>>)
a_balance == Get(Get(a_user_data, "balance", EmptyDict), "balance", 0)

\* "if not transactions: return {...}"
AReturnNoData ==
    /\ a_pc = "start"
    /\ a_transactions = <<>>
    /\ a_result' = NoTransactionData
    /\ a_pc' = "done"
    /\ UNCHANGED <<a_user_data, a_i, a_acc>>
    /\ UNCHANGED <<svc_vars, c_vars>>

\* the statements before the loop
AEnterLoop ==
    /\ a_pc = "start"
    /\ a_transactions /= <<>>
    /\ a_acc' = AnalyticsStart(a_balance, a_transactions)
    /\ a_pc' = "loop"
    /\ UNCHANGED <<a_user_data, a_i, a_result>>
    /\ UNCHANGED <<svc_vars, c_vars>>

\* one iteration of the loop
AIterate ==
    /\ a_pc = "loop"
    /\ a_i < Len(a_transactions)
    /\ a_acc' = AnalyzeTransaction(a_acc, a_transactions[a_i + 1])
    /\ a_i' = a_i + 1
    /\ UNCHANGED <<a_pc, a_user_data, a_result>>
    /\ UNCHANGED <<svc_vars, c_vars>>

\* the statements after the loop
AReturn ==
    /\ a_pc = "loop"
    /\ a_i = Len(a_transactions)
    /\ a_result' = FinishAnalytics(a_acc, a_balance)
    /\ a_pc' = "done"
    /\ UNCHANGED <<a_user_data, a_i, a_acc>>
    /\ UNCHANGED <<svc_vars, c_vars>>

ANext == AReturnNoData \/ AEnterLoop \/ AIterate \/ AReturn

(***************************************************************************)
(* categorize_transaction on its own                                       *)
(***************************************************************************)
\* Longest description, in fragments of Fragments.
MaxFragments == 2

Fragments ==
    { <<"S","a","l","a","r","y">>,
      <<"R","e","c","e","i","v","e","d">>,
      <<" ","F","R","O","M"," ">>,
      <<"C","O","F","F","E","E">>,
      <<"V","e","g","a","s">>,
      <<"T","a","x","i">>,
      <<"S","t","o","r","e">>,
      <<"A","m","a","z","o","n">>,
      <<"P","a","r","e","n","t">>,
      <<"W","a","t","e","r">>,
      <<"P","a","y","m","e","n","t">>,
      <<"S","e","n","t"," ","t","o">>,
      <<"G","i","f","t">>,
      <<" ">> }

RECURSIVE Concat(_)
Concat(parts) == IF parts = <<>> THEN <<>> ELSE Head(parts) \o Concat(Tail(parts))

Descriptions ==
    {Concat(parts) : parts \in UNION {[1..n -> Fragments] : n \in 0..MaxFragments}}

CInit ==
    /\ c_pc = "start"
    /\ c_description \in Descriptions
    /\ c_category = ""

Categorize ==
    /\ c_pc = "start"
    /\ c_category' = categorize_transaction(c_description)
    /\ c_pc' = "done"
    /\ UNCHANGED c_description
    /\ UNCHANGED <<svc_vars, a_vars>>

CNext == Categorize

(***************************************************************************)
(* Specifications                                                          *)
(***************************************************************************)
AIdle == a_pc = "idle" /\ a_user_data = EmptyDict /\ a_i = 0
         /\ a_acc = AnalyticsStart(0, <<>>) /\ a_result = EmptyDict
CIdle == c_pc = "idle" /\ c_description = <<>> /\ c_category = ""
SvcIdle == SvcInit /\ model = FALSE

\* the service
Init == SvcInit /\ AIdle /\ CIdle
Next == SvcNext
Spec == Init /\ [][Next]_vars

\* generate_detailed_analytics over the sample inputs
InitAnalytics == SvcIdle /\ AInit /\ CIdle
NextAnalytics == ANext
SpecAnalytics == InitAnalytics /\ [][NextAnalytics]_vars

\* categorize_transaction over the sample descriptions
InitCategorize == SvcIdle /\ AIdle /\ CInit
NextCategorize == CNext
SpecCategorize == InitCategorize /\ [][NextCategorize]_vars

(***************************************************************************)
(* Properties                                                              *)
(***************************************************************************)
Responded == pc = "idle" /\ resp.status /= 0

\* the request got as far as calling get_user_data
ReachedUserData ==
    /\ req.route \in {"insights", "chat", "spending-analysis"}
    /\ "username" \in DOMAIN req
    /\ resp.status \notin {400, 401}

\* get_user_data has returned to the route handler
UserDataReturned == ReachedUserData /\ pc \in {"idle", "model"}

\* the calls of this request to the endpoint e
CallsTo(e) == {i \in 1..Len(calls) : calls[i].endpoint = e}
Upstream == {"login", "balance", "transactions", "contacts"}
UpstreamCalls == {i \in 1..Len(calls) : calls[i].endpoint \in Upstream}
Answered(e, outcome) ==
    \E i \in CallsTo(e) : Outcome(calls[i].response) = outcome

InsightsKeys ==
    {"username", "insights", "analytics", "visualizations", "summary", "timestamp"}

\* C1: a GET /insights/{username} request all of whose upstream calls failed
\* (network error or non-success status) is answered with HTTP 200 and a body
\* holding username, insights, analytics, visualizations, summary and
\* timestamp, with the model configured or not.
C1_InsightsAnswersWhenUpstreamFails ==
    (/\ Responded
     /\ req.route = "insights"
     /\ \A i \in UpstreamCalls : Outcome(calls[i].response) /= "ok")
    => /\ resp.status = 200
       /\ InsightsKeys \subseteq DOMAIN resp.body

\* C1 witness: the login call raised, the configured model was still asked,
\* and the request was answered.
C1_Witness ==
    /\ Responded
    /\ req.route = "insights"
    /\ model
    /\ Len(calls) = 2
    /\ calls[1].endpoint = "login" /\ calls[1].response.raises
    /\ calls[2].endpoint = "model"
    /\ resp.status = 200

\* the credential get_user_data fetches with: supplied, or obtained by login
UsableCredential == Truthy(auth_token) /\ auth_token /= demo_token

\* what a successful answer r to the call for field f puts into user_data
FetchedValue(f, r) ==
    IF f = "balance" THEN [balance |-> r.json, currency |-> "USD"]
    ELSE IF f = "contacts" THEN r.json
    ELSE FormatTransactions(r.json, account_id, EmptyDict)

\* C2: with a usable credential, a field of user_data whose own call was
\* answered successfully holds the value of that answer, whatever happened to
\* the other calls (so the placeholder stands only in fields whose own call
\* failed).
C2_FailureStaysInItsField ==
    (UserDataReturned /\ UsableCredential)
    => \A f \in {"balance", "transactions", "contacts"} :
          \A i \in CallsTo(f) :
              Outcome(calls[i].response) = "ok"
              => user_data[f] = FetchedValue(f, calls[i].response)

UserDataKeys == {"username", "balance", "transactions", "contacts"}

\* C3: whatever the login, balance, transactions and contacts calls answer
\* (success, non-success status, network error), get_user_data returns to the
\* handler a record holding username, balance, transactions and contacts.
C3_UserDataComplete ==
    UserDataReturned
    => /\ UserDataKeys \subseteq DOMAIN user_data
       /\ user_data["username"] = req.username

\* C3 witness: a run with a success, a non-success status and a network error
\* among its answers.
C3_Witness ==
    /\ UserDataReturned
    /\ Answered("login", "ok")
    /\ Answered("balance", "ok")
    /\ Answered("transactions", "status")
    /\ Answered("contacts", "neterr")

\* generate_detailed_analytics has returned its analytics record
AnalyticsDone == a_pc = "done" /\ a_transactions /= <<>>

\* C4: for a non-empty transaction list and a non-negative balance the
\* financial_health_score lies in 0..100.
C4_HealthScoreInRange ==
    (AnalyticsDone /\ a_balance >= 0)
    => a_result["financial_health_score"] \in 0..100

\* round(x): to the nearest integer, ties to the even one
RatRound(x) ==
    LET f == x.n \div x.d    \* floor
        r == x.n - f * x.d   \* 0 <= r < d
    IN  IF 2 * r < x.d THEN f
        ELSE IF 2 * r > x.d THEN f + 1
        ELSE IF f % 2 = 0 THEN f ELSE f + 1

\* the score the documentation gives:
\* round(100 * (0.4*savings_rate + 0.4*min(balance/5000, 1)
\*              + 0.2*min(distinct_categories/5, 1)))
DocumentedScore(total_income, total_spending, balance, categories) ==
    LET savings_rate == IF total_income = 0 THEN Rat(0, 1)
                        ELSE Rat(total_income - total_spending, total_income)
        balance_part == RatMin(Rat(balance, 500000), Rat(1, 1))
        category_part == RatMin(Rat(categories, 5), Rat(1, 1))
    IN  RatRound(RatAdd(RatAdd(RatScale(savings_rate, 40),
                               RatScale(balance_part, 40)),
                        RatScale(category_part, 20)))

\* C5: the financial_health_score is the documented rounded blend of savings
\* rate, balance ratio and category diversity, the savings rate being 0 when
\* there is no income.
C5_HealthScoreFormula ==
    AnalyticsDone
    => a_result["financial_health_score"] =
          DocumentedScore(a_result["total_income"], a_result["total_spending"],
                          a_balance,
                          Cardinality(DOMAIN a_result["transaction_categories"]))

\* the categories in the order the documentation lists them, each with its
\* keywords
CategoryTable ==
    << [name |-> "Income", words |-> IncomeWords],
       [name |-> "Food & Dining", words |-> FoodWords],
       [name |-> "Transportation", words |-> TransportationWords],
       [name |-> "Shopping", words |-> ShoppingWords],
       [name |-> "Housing", words |-> HousingWords],
       [name |-> "Transfers", words |-> TransferWords] >>

\* the rows of CategoryTable one of whose keywords occurs in d, case ignored
MatchingRows(d) ==
    {i \in 1..Len(CategoryTable) : AnyWordIn(CategoryTable[i].words, Lower(d))}

\* C6: every description maps to exactly one category: the first of Income,
\* Food & Dining, Transportation, Shopping, Housing, Transfers one of whose
\* keywords occurs in it (case ignored), else Other; so an income keyword
\* always gives Income.
C6_FirstMatchingCategory ==
    c_pc = "done"
    => LET rows == MatchingRows(c_description) IN
       /\ rows = {} => c_category = "Other"
       /\ rows /= {} =>
            c_category = CategoryTable[CHOOSE i \in rows : \A j \in rows : i <= j].name
       /\ 1 \in rows => c_category = "Income"

\* C6 witness: a description with an income keyword and a keyword of a later
\* category, categorized as Income.
C6_Witness ==
    /\ c_pc = "done"
    /\ 1 \in MatchingRows(c_description)
    /\ MatchingRows(c_description) \ {1} /= {}
    /\ c_category = "Income"

\* the first 7 characters of a timestamp
First7(ts) == IF Len(ts) >= 7 THEN SubSeq(ts, 1, 7) ELSE ts

\* the transactions processed so far that have a non-empty timestamp, a
\* parsed amount and the given direction
Bucketed(income) ==
    {j \in 1..a_i :
        /\ Get(a_transactions[j], "timestamp", <<>>) /= <<>>
        /\ TxAmount(a_transactions[j]).ok
        /\ TxAmount(a_transactions[j]).is_income = income}

RECURSIVE SumAbsAmounts(_)
SumAbsAmounts(js) ==
    IF js = {} THEN 0
    ELSE LET j == CHOOSE k \in js : TRUE
         IN  Abs(TxAmount(a_transactions[j]).amount) + SumAbsAmounts(js \ {j})

\* the map in which each bucketed transaction adds its absolute amount to
\* the key made of the first 7 characters of its timestamp, and to no other
BucketsByFirst7(income) ==
    LET key(j) == First7(a_transactions[j]["timestamp"])
    IN  [k \in {key(j) : j \in Bucketed(income)} |->
            SumAbsAmounts({j \in Bucketed(income) : key(j) = k})]

\* C7: at every point of the loop income_by_month and spending_by_month are
\* the maps that bucket the processed transactions by the first 7 characters
\* of their timestamps: same key iff same first 7 characters, each transaction
\* in exactly one bucket of the map of its direction.
C7_MonthlyBuckets ==
    a_pc \in {"loop", "done"}
    => /\ a_acc.analytics.income_by_month = BucketsByFirst7(TRUE)
       /\ a_acc.analytics.spending_by_month = BucketsByFirst7(FALSE)

\* C7 witness: three outgoing transactions with different timestamps, two of
\* one month sharing a bucket and one of another month in its own.
C7_Witness ==
    /\ a_pc = "done"
    /\ \E i, j, k \in Bucketed(FALSE) :
          LET ts(n) == a_transactions[n]["timestamp"] IN
          /\ ts(i) /= ts(j) /\ First7(ts(i)) = First7(ts(j))
          /\ First7(ts(k)) /= First7(ts(i))
    /\ Cardinality(DOMAIN a_result["spending_by_month"]) = 2

\* C8: a POST /chat whose JSON body is absent or lacks message or username is
\* answered 400 at once; no upstream service and no model is called for it.
C8_ChatRejectsIncompleteBody ==
    (/\ req.route = "chat"
     /\ \/ ~req.data.has_json
        \/ "message" \notin DOMAIN req.data.json
        \/ "username" \notin DOMAIN req.data.json)
    => /\ Responded
       /\ resp.status = 400
       /\ calls = <<>>

\* C8 witness: a body with a message and no username, rejected.
C8_Witness ==
    /\ req.route = "chat"
    /\ req.data.has_json
    /\ DOMAIN req.data.json = {"message"}
    /\ resp.status = 400

\* the header value without its leading 'Bearer '
WithoutBearerPrefix(h) ==
    IF StartsWith(h, BearerPrefix) THEN SubSeq(h, Len(BearerPrefix) + 1, Len(h))
    ELSE h

\* C9: a GET /spending-analysis/{username} with no Authorization header, or
\* whose header leaves nothing after 'Bearer ', is answered 401 at once; no
\* upstream service is called for it.
C9_SpendingRequiresToken ==
    (/\ req.route = "spending-analysis"
     /\ \/ "Authorization" \notin DOMAIN req.headers
        \/ WithoutBearerPrefix(req.headers["Authorization"]) = <<>>)
    => /\ Responded
       /\ resp.status = 401
       /\ calls = <<>>

\* C9 witness: a header holding just 'Bearer ', rejected.
C9_Witness ==
    /\ req.route = "spending-analysis"
    /\ "Authorization" \in DOMAIN req.headers
    /\ req.headers["Authorization"] = BearerPrefix
    /\ resp.status = 401

\* C10: a GET /spending-analysis/{username} that carries a non-empty bearer
\* credential is answered with a success response holding username, analysis
\* and timestamp.
C10_SpendingAnswers ==
    (/\ Responded
     /\ req.route = "spending-analysis"
     /\ "Authorization" \in DOMAIN req.headers
     /\ WithoutBearerPrefix(req.headers["Authorization"]) /= <<>>
     /\ resp.status /= 401)
    => /\ resp.status = 200
       /\ {"username", "analysis", "timestamp"} \subseteq DOMAIN resp.body

\* the model call of this request raised
ModelRaised == \E i \in CallsTo("model") : calls[i].response.raises

\* the model call of this request answered
ModelAnswered == \E i \in CallsTo("model") : ~calls[i].response.raises

\* C11: an /insights or /chat request served with the model not configured,
\* or whose model call raised, is answered HTTP 200; the insights body holds
\* the fixed apology with empty analytics and empty visualizations, the chat
\* body holds the fixed apology as ai_response.
C11_ModelFailureApology ==
    (/\ Responded
     /\ UserDataReturned
     /\ req.route \in {"insights", "chat"}
     /\ ~model \/ ModelRaised)
    => /\ resp.status = 200
       /\ req.route = "insights" =>
            /\ resp.body.insights =
                 IF model
                 THEN "I'm having trouble analyzing your financial data right now. Please try again later."
                 ELSE "AI insights are currently unavailable. Please check configuration."
            /\ resp.body.analytics = EmptyDict
            /\ resp.body.visualizations = EmptyDict
       /\ req.route = "chat" =>
            resp.body.ai_response =
                 IF model
                 THEN "I'm sorry, I'm having trouble understanding your request right now. Please try again."
                 ELSE "AI chat is currently unavailable. Please check configuration."

\* C11 witness: an insights request whose upstream calls all succeeded with
\* transactions to analyse, and whose model call raised.
C11_Witness ==
    /\ Responded
    /\ req.route = "insights"
    /\ ModelRaised
    /\ Answered("transactions", "ok")
    /\ Answered("contacts", "ok")
    /\ user_data["transactions"] /= <<>>
    /\ resp.status = 200
    /\ resp.body.analytics = EmptyDict

\* the category totals of an analytics record (none when there was nothing
\* to analyse)
CategoryTotals(analytics) ==
    IF "transaction_categories" \in DOMAIN analytics
    THEN analytics["transaction_categories"] ELSE EmptyDict

\* C12: when the model call succeeds the /insights response carries the
\* analytics of generate_detailed_analytics unchanged; the monthly spending,
\* income-vs-expense and category charts carry the analytics values as data
\* (empty or zero when there was nothing to analyse); the summary holds
\* balance, health_score, net_change and top_category, the latter a category
\* with the largest total, or 'No data' without category totals.
C12_InsightsCarryAnalytics ==
    (Responded /\ req.route = "insights" /\ ModelAnswered)
    => LET analytics == generate_detailed_analytics(user_data)
           totals == CategoryTotals(analytics)
           analysed == "total_income" \in DOMAIN analytics
           v == resp.body.visualizations
           s == resp.body.summary
       IN  /\ resp.status = 200
           /\ resp.body.analytics = analytics
           /\ {"monthly_spending_chart", "income_vs_expense_chart",
               "category_pie_chart"} \subseteq DOMAIN v
           /\ v.monthly_spending_chart.data =
                IF analysed THEN analytics["spending_by_month"] ELSE EmptyDict
           /\ v.category_pie_chart.data = totals
           /\ v.income_vs_expense_chart.data =
                IF analysed
                THEN [Income |-> analytics["total_income"],
                      Expenses |-> analytics["total_spending"],
                      Net |-> analytics["net_change"]]
                ELSE [Income |-> 0, Expenses |-> 0, Net |-> 0]
           /\ {"balance", "health_score", "net_change", "top_category"}
                \subseteq DOMAIN s
           /\ IF DOMAIN totals = {}
              THEN s.top_category = "No data"
              ELSE /\ s.top_category \in DOMAIN totals
                   /\ \A c \in DOMAIN totals : totals[c] <= totals[s.top_category]

\* C12 witness: a response over the placeholder transactions, where the
\* largest category (Income) is not the first one listed.
C12_Witness ==
    /\ Responded
    /\ req.route = "insights"
    /\ ModelAnswered
    /\ user_data["transactions"] = FallbackTransactions
    /\ Cardinality(DOMAIN resp.body.analytics["transaction_categories"]) = 3
    /\ resp.body.summary.top_category = "Income"

\* the credential a request hands to get_user_data
CredentialOf(r) ==
    IF r.route = "spending-analysis"
    THEN BearerToken(r.headers)
    ELSE demo_token

\* the status a request is answered with before any outbound call, 0 when
\* it goes on to get_user_data
ImmediateStatus(r) ==
    IF r.route \in {"health", "ready"} THEN 200
    ELSE IF r.route = "chat" /\ "username" \notin DOMAIN r THEN 400
    ELSE IF r.route = "spending-analysis" /\ CredentialOf(r) = <<>> THEN 401
    ELSE 0

\* C13: requests are stateless.  No step changes conversation_context (it
\* stays empty) or the model handle, and a step that takes up a new request
\* leaves nothing of the earlier one: the call log, the credential, the
\* account id, the user data and the response are then set from the new
\* request alone.
C13_Stateless ==
    [][/\ conversation_context = EmptyDict
       /\ conversation_context' = EmptyDict
       /\ model' = model
       /\ pc = "idle" =>
            /\ calls' = <<>>
            /\ resp'.status = ImmediateStatus(req')
            /\ IF ImmediateStatus(req') /= 0
               THEN /\ pc' = "idle"
                    /\ user_data' = EmptyDict
                    /\ auth_token' = NoneStr
                    /\ account_id' = NoneStr
               ELSE /\ resp' = NoResponse
                    /\ user_data' = [username |-> req'.username]
                    /\ auth_token' = CredentialOf(req')
                    /\ IF CredentialOf(req') = demo_token
                       THEN pc' = "login" /\ account_id' = NoneStr
                       ELSE pc' = "balance"]_vars

\* C13 witness: a chat request served to the end with an answering model,
\* the context map still empty.
C13_Witness ==
    /\ Responded
    /\ req.route = "chat"
    /\ ModelAnswered
    /\ resp.status = 200
    /\ conversation_context = EmptyDict

\* the calls of this request to the three data services
FetchCalls == CallsTo("balance") \cup CallsTo("transactions") \cup CallsTo("contacts")

\* the token a login answer carries, if any
LoginToken(r) ==
    IF Outcome(r) = "ok" /\ "token" \in DOMAIN r.json THEN r.json["token"]
    ELSE NoneStr

\* C14: in get_user_data, without a credential of its own (the handler's
\* 'demo-token') the first call is the one login call and every fetch that
\* follows sends the token it returned; with a supplied credential there is
\* no login call and the fetches send that credential; after a login answer
\* with a non-success status or without a token no fetch is made and
\* balance, transactions and contacts are the placeholders.
C14_LoginBeforeFetches ==
    (ReachedUserData /\ pc /= "login")
    => /\ CredentialOf(req) = demo_token =>
            /\ CallsTo("login") = {1}
            /\ \A i \in FetchCalls : calls[i].token = LoginToken(calls[1].response)
       /\ CredentialOf(req) /= demo_token =>
            /\ CallsTo("login") = {}
            /\ \A i \in FetchCalls : calls[i].token = CredentialOf(req)
       /\ \A i \in CallsTo("login") :
            (Outcome(calls[i].response) /= "neterr"
             /\ LoginToken(calls[i].response) = NoneStr)
            => /\ FetchCalls = {}
               /\ user_data["balance"] = [balance |-> 125075, currency |-> "USD"]
               /\ user_data["transactions"] = FallbackTransactions
               /\ user_data["contacts"] = FallbackContacts

\* C14 witness: an insights request whose login returned a token, sent with
\* the balance, transactions and contacts calls.
C14_Witness ==
    /\ req.route = "insights"
    /\ Len(calls) >= 4
    /\ calls[1].endpoint = "login"
    /\ calls[2].endpoint = "balance" /\ calls[2].token = Token_testuser
    /\ calls[3].endpoint = "transactions" /\ calls[3].token = Token_testuser
    /\ calls[4].endpoint = "contacts" /\ calls[4].token = Token_testuser

\* the three fetches in every order
FetchOrders ==
    {o \in [1..3 -> {"balance", "transactions", "contacts"}] :
        \A i, j \in 1..3 : o[i] = o[j] => i = j}

\* get_user_data made all three fetches in this request
AllFetched ==
    /\ UserDataReturned
    /\ \A f \in {"balance", "transactions", "contacts"} : CallsTo(f) /= {}

\* the answer this request got from each of the three services
FetchAnswers ==
    [f \in {"balance", "transactions", "contacts"} |->
        calls[CHOOSE i \in CallsTo(f) : TRUE].response]

\* C15: the record get_user_data returns is the one every order of the three
\* fetches gives for the same answers: same balance, same transactions
\* (descriptions included), same contacts.
C15_FetchOrderIrrelevant ==
    AllFetched
    => \A o \in FetchOrders :
          LET ud == FetchInOrder(o, FetchAnswers, [username |-> req.username],
                                 account_id)
          IN  /\ ud["balance"] = user_data["balance"]
              /\ ud["transactions"] = user_data["transactions"]
              /\ ud["contacts"] = user_data["contacts"]

\* the record returned is the one the fetches give in the order of the code
ReturnedInCodeOrder ==
    AllFetched
    => user_data = FetchInOrder(FetchOrder, FetchAnswers,
                                [username |-> req.username], account_id)

\* the place of each endpoint in the order of calls
CallRank(e) ==
    IF e = "login" THEN 1 ELSE IF e = "balance" THEN 2
    ELSE IF e = "transactions" THEN 3 ELSE IF e = "contacts" THEN 4 ELSE 5

\* C16: within one request the calls go strictly in the order login,
\* balance, transactions, contacts, model (so none is repeated), and after
\* an upstream call that raised a network error no upstream call follows.
C16_NoRetries ==
    \A i, j \in 1..Len(calls) :
        i < j =>
            /\ CallRank(calls[i].endpoint) < CallRank(calls[j].endpoint)
            /\ (calls[i].endpoint \in Upstream /\ calls[i].response.raises)
               => calls[j].endpoint \notin Upstream

\* C16 witness: the balance call raised after a successful login, and the
\* only call after it was the model's.
C16_Witness ==
    /\ Responded
    /\ Len(calls) = 3
    /\ calls[1].endpoint = "login" /\ Outcome(calls[1].response) = "ok"
    /\ calls[2].endpoint = "balance" /\ calls[2].response.raises
    /\ calls[3].endpoint = "model"

\* the upstream list of the successful transactions call of this request
UpstreamTransactions ==
    calls[CHOOSE i \in CallsTo("transactions") : TRUE].response.json

\* user_data holds the first 20 upstream transactions in upstream order,
\* each with is_incoming set by its toAccountNum, the sign of its amount
\* string set by is_incoming, and the rest of the string worth raw_amount/100
FirstTwentyFormatted ==
    LET raw == UpstreamTransactions
        txs == user_data["transactions"]
        n == IF Len(raw) < 20 THEN Len(raw) ELSE 20
    IN  /\ Len(txs) = n
        /\ \A i \in 1..n :
              /\ txs[i].transaction_id = raw[i].transactionId
              /\ txs[i].timestamp = raw[i].timestamp
              /\ txs[i].raw_amount = raw[i].amount
              /\ txs[i].is_incoming = (raw[i].toAccountNum = account_id)
              /\ Head(txs[i].amount) = (IF txs[i].is_incoming THEN "+" ELSE "-")
              /\ ParseFloat(Tail(txs[i].amount)) =
                    [ok |-> TRUE, value |-> txs[i].raw_amount]

\* C17: when the transactions call succeeded, the record get_user_data
\* returns holds at most 20 transactions, the first 20 of the upstream list
\* in upstream order, with is_incoming, the sign of the amount string and
\* its magnitude as documented.
C17_FirstTwentySigned ==
    (UserDataReturned /\ Answered("transactions", "ok"))
    => FirstTwentyFormatted

\* the same, as long as the contacts call that follows does not raise
FirstTwentySignedUnlessContactsRaise ==
    (/\ ReachedUserData
     /\ Answered("transactions", "ok")
     /\ ~Answered("contacts", "neterr"))
    => FirstTwentyFormatted

RECURSIVE SumValues(_)
\* the sum of the values of a map
SumValues(d) ==
    IF DOMAIN d = {} THEN 0
    ELSE LET k == CHOOSE x \in DOMAIN d : TRUE
         IN  d[k] + SumValues([x \in DOMAIN d \ {k} |-> d[x]])

\* the transactions whose amount parses, and those of them with a timestamp
Parsed == {j \in 1..Len(a_transactions) : TxAmount(a_transactions[j]).ok}
Stamped == {j \in Parsed : Get(a_transactions[j], "timestamp", <<>>) /= <<>>}

====
